---------------------------- MODULE Spec2Model ----------------------------
(***************************************************************************)
(* The Aurora Finance store (src/app/src/store/use-app-store.ts): a        *)
(* zustand store wrapped in the persist middleware.  The state is the      *)
(* AppState record; every handler of AppActions is an operator that maps   *)
(* the state and the call's arguments to the call's outcome (the new       *)
(* state, the thrown error, the returned value and the states handed to    *)
(* set(), in order); one action per handler applies it.                    *)
(*                                                                         *)
(* A string the code trims or lower-cases (an email, a name, a category)   *)
(* is a sequence of pieces: a whitespace character, a letter or other      *)
(* character, or a word that no call lower-cases ("Food").  Opaque strings *)
(* (ids, hashes, messages) are TLA+ strings.  An optional value is <<>>    *)
(* (undefined) or <<v>>.                                                   *)
(***************************************************************************)
EXTENDS Integers, Sequences, FiniteSets, TLC

VARIABLES users, receipts, transactions, budgets, analyticsLog, currentUserId,
          storage, published, call, credentials, otherTab

storeVars == <<users, receipts, transactions, budgets, analyticsLog, currentUserId>>
vars == <<users, receipts, transactions, budgets, analyticsLog, currentUserId,
          storage, published, call, credentials, otherTab>>

-----------------------------------------------------------------------------
(* Bounds of the model. *)

\* The store holds at most this many entities (users, receipts,
\* transactions, budgets and log entries together): in the whole store, ...
MaxEntities == 2
\* ... where only accounts are created, and where only budgets are.
MaxUsers == 2
MaxBudgets == 2
\* Entities (users, receipts, transactions, budgets) in the specification of
\* the plan changes and in the one of the ledger.
MaxPlanEntities == 3
MaxLedgerEntities == 3
\* Entities in the store of a tab, in the specification of the two tabs.
MaxTabEntities == 2
\* importTransactions adds a whole batch: it is called on a store that holds
\* at most this many entities.
MaxBeforeImport == 1

-----------------------------------------------------------------------------
(* Optional values and JavaScript numbers. *)

undefined == <<>>
Def(v) == <<v>>
IsDef(o) == o # <<>>
Val(o) == o[1]

\* A JavaScript number: an integer, or NaN (every comparison with NaN is false).
Num(n) == [nan |-> FALSE, v |-> n]
NaN == [nan |-> TRUE, v |-> 0]
NumLe(a, b) == ~a.nan /\ ~b.nan /\ a.v <= b.v
NumGt(a, b) == ~a.nan /\ ~b.nan /\ a.v > b.v

-----------------------------------------------------------------------------
(* String.prototype.trim and toLowerCase on sequences of characters. *)

Whitespace == {" ", "\t", "\n"}
UpperCase == <<"A","B","C","D","E","F","G","H","I","J","K","L","M",
               "N","O","P","Q","R","S","T","U","V","W","X","Y","Z">>
LowerCase == <<"a","b","c","d","e","f","g","h","i","j","k","l","m",
               "n","o","p","q","r","s","t","u","v","w","x","y","z">>

RECURSIVE trimStart(_)
trimStart(s) ==
  IF s # <<>> /\ Head(s) \in Whitespace THEN trimStart(Tail(s)) ELSE s

RECURSIVE trimEnd(_)
trimEnd(s) ==
  IF s # <<>> /\ s[Len(s)] \in Whitespace
  THEN trimEnd(SubSeq(s, 1, Len(s) - 1))
  ELSE s

trim(s) == trimEnd(trimStart(s))

LowerOf == [c \in {UpperCase[i] : i \in 1..26} |-> LowerCase[CHOOSE i \in 1..26 : UpperCase[i] = c]]
toLowerCaseChar(c) ==
  IF c \in DOMAIN LowerOf THEN LowerOf[c] ELSE c

toLowerCase(s) == [i \in 1..Len(s) |-> toLowerCaseChar(s[i])]

-----------------------------------------------------------------------------
(* Array helpers. *)

find(arr, P(_)) ==
  IF \E i \in 1..Len(arr) : P(arr[i])
  THEN Def(arr[CHOOSE i \in 1..Len(arr) :
                 P(arr[i]) /\ \A j \in 1..(i - 1) : ~P(arr[j])])
  ELSE undefined

filter(arr, P(_)) == SelectSeq(arr, P)
map(arr, f(_)) == [i \in 1..Len(arr) |-> f(arr[i])]
includes(arr, x) == \E i \in 1..Len(arr) : arr[i] = x
\* Variant: arr.slice(1, n)
slice0_skipFirst(arr, n) == SubSeq(arr, 2, IF n < Len(arr) THEN n ELSE Len(arr))
\* arr.slice(0, n)
slice0(arr, n) == SubSeq(arr, 1, IF n < Len(arr) THEN n ELSE Len(arr))
concat(a, b) == a \o b

-----------------------------------------------------------------------------
(* Program constants. *)

Salary == <<"Salary">>
Rent == <<"Rent">>
Food == <<"Food">>
Transportation == <<"Transportation">>
Entertainment == <<"Entertainment">>
Utilities == <<"Utilities">>
Healthcare == <<"Healthcare">>
Travel == <<"Travel">>
Savings == <<"Savings">>

DEFAULT_CATEGORIES ==
  <<Salary, Rent, Food, Transportation, Entertainment, Utilities,
    Healthcare, Travel, Savings>>

\* DEFAULT_CATEGORIES.slice(0, 6): the number of starter categories.
StarterCount == 6
\* Variant: a new account starts with the whole default list.
StarterCategories_all == DEFAULT_CATEGORIES

StarterCategories == slice0(DEFAULT_CATEGORIES, StarterCount)

NewMember == <<"New", " ", "Member">>

NoError == ""
ErrConflict == "An account already exists for this email address."
ErrInvalidCredentials == "Invalid email or password."
ErrNoAccount == "No account found for this email."
ErrBudgetLimit == "Budget limit must be greater than zero."
ErrBudgetNotFound == "Budget not found."
ErrCategoryEmpty == "Category name cannot be empty."
ErrUserNotFound == "User not found."

\* generateImportedTransactions: the size of a batch.
ImportCount == 6

-----------------------------------------------------------------------------
(* The store. *)

State ==
  [users |-> users, receipts |-> receipts, transactions |-> transactions,
   budgets |-> budgets, analyticsLog |-> analyticsLog,
   currentUserId |-> currentUserId]

InitialState ==
  [users |-> <<>>, receipts |-> <<>>, transactions |-> <<>>,
   budgets |-> <<>>, analyticsLog |-> <<>>, currentUserId |-> undefined]

\* zustand's set(partial): a shallow merge of partial into the state.
set(s, partial) ==
  [k \in DOMAIN s |-> IF k \in DOMAIN partial THEN partial[k] ELSE s[k]]

\* The outcome of a call: the state it leaves, the message of the error it
\* threw (NoError when it returned), the value it returned, the states it
\* handed to set() in order, and the number of nanoid() calls it made.
Return(s, sets, ret, fresh) ==
  [state |-> s, error |-> NoError, ret |-> ret, sets |-> sets, fresh |-> fresh]
Throw(s, msg) ==
  [state |-> s, error |-> msg, ret |-> undefined, sets |-> <<>>, fresh |-> 0]

normalize(email) == toLowerCase(trim(email))

\* Variant: the stored email is compared with the email as typed.
selectUserByEmail_exact(us, email) ==
  find(us, LAMBDA user : user.email = email)

selectUserByEmail(us, email) ==
  find(us, LAMBDA user : normalize(user.email) = normalize(email))

\* Variant: the session is set to the new id before the email is looked up.
signUp_sessionFirst(s, email, name, passwordHash, id, now) ==
  LET existing == selectUserByEmail(s.users, email)
      newUser ==
        [id |-> id,
         email |-> normalize(email),
         name |-> IF trim(name) # <<>> THEN trim(name) ELSE NewMember,
         passwordHash |-> passwordHash,
         createdAt |-> now,
         subscription |->
           [tier |-> "free", status |-> "active", renewalDate |-> undefined],
         settings |->
           [currency |-> "USD", notifications |-> TRUE,
            darkMode |-> FALSE, haptics |-> TRUE],
         categories |-> StarterCategories]
      s0 == set(s, [currentUserId |-> Def(id)])
      s1 == set(s0, [users |-> Append(s.users, newUser)])
  IN IF IsDef(existing)
     THEN [Throw(s0, ErrConflict) EXCEPT !.sets = <<s0>>]
     ELSE Return(s1, <<s0, s1>>, Def(id), 1)

signUp(s, email, name, passwordHash, id, now) ==
  LET existing == selectUserByEmail(s.users, email)
      newUser ==
        [id |-> id,
         email |-> normalize(email),
         name |-> IF trim(name) # <<>> THEN trim(name) ELSE NewMember,
         passwordHash |-> passwordHash,
         createdAt |-> now,
         subscription |->
           [tier |-> "free", status |-> "active", renewalDate |-> undefined],
         settings |->
           [currency |-> "USD", notifications |-> TRUE,
            darkMode |-> FALSE, haptics |-> TRUE],
         categories |-> StarterCategories]
      s1 == set(s, [users |-> Append(s.users, newUser),
                    currentUserId |-> Def(id)])
  IN IF IsDef(existing)
     THEN Throw(s, ErrConflict)
     ELSE Return(s1, <<s1>>, Def(id), 1)

\* Variant: the hash is not compared.
signIn_anyPassword(s, email, passwordHash) ==
  LET user == selectUserByEmail(s.users, email)
      s1 == set(s, [currentUserId |-> Def(Val(user).id)])
  IN IF ~IsDef(user)
     THEN Throw(s, ErrInvalidCredentials)
     ELSE Return(s1, <<s1>>, user, 0)

signIn(s, email, passwordHash) ==
  LET user == selectUserByEmail(s.users, email)
      s1 == set(s, [currentUserId |-> Def(Val(user).id)])
  IN IF ~IsDef(user) \/ Val(user).passwordHash # passwordHash
     THEN Throw(s, ErrInvalidCredentials)
     ELSE Return(s1, <<s1>>, user, 0)

\* Variant: signing out also empties the analytics log.
signOut_clearsLog(s) ==
  LET s1 == set(s, [currentUserId |-> undefined, analyticsLog |-> <<>>])
  IN Return(s1, <<s1>>, undefined, 0)

signOut(s) ==
  LET s1 == set(s, [currentUserId |-> undefined])
  IN Return(s1, <<s1>>, undefined, 0)

\* Variant: the map has no test on the id.
resetPassword_all(s, email, newPasswordHash) ==
  LET user == selectUserByEmail(s.users, email)
      s1 == set(s, [users |->
              map(s.users, LAMBDA u :
                [u EXCEPT !.passwordHash = newPasswordHash])])
  IN IF ~IsDef(user)
     THEN Throw(s, ErrNoAccount)
     ELSE Return(s1, <<s1>>, undefined, 0)

\* Variant: a reset also ends the session.
resetPassword_signOut(s, email, newPasswordHash) ==
  LET user == selectUserByEmail(s.users, email)
      s1 == set(s, [users |->
              map(s.users, LAMBDA u :
                IF u.id = Val(user).id
                THEN [u EXCEPT !.passwordHash = newPasswordHash]
                ELSE u),
              currentUserId |-> undefined])
  IN IF ~IsDef(user)
     THEN Throw(s, ErrNoAccount)
     ELSE Return(s1, <<s1>>, undefined, 0)

resetPassword(s, email, newPasswordHash) ==
  LET user == selectUserByEmail(s.users, email)
      s1 == set(s, [users |->
              map(s.users, LAMBDA u :
                IF u.id = Val(user).id
                THEN [u EXCEPT !.passwordHash = newPasswordHash]
                ELSE u)])
  IN IF ~IsDef(user)
     THEN Throw(s, ErrNoAccount)
     ELSE Return(s1, <<s1>>, undefined, 0)


addReceipt(s, fileName, dataUrl, id, now) ==
  LET receipt ==
        [id |-> id, fileName |-> fileName, dataUrl |-> dataUrl,
         uploadedAt |-> now]
      s1 == set(s, [receipts |-> Append(s.receipts, receipt)])
  IN Return(s1, <<s1>>, Def(receipt), 1)

\* Variant: the transactions that name the receipt lose the reference.
removeReceipt_unlink(s, id) ==
  LET s1 == set(s, [receipts |->
                      filter(s.receipts, LAMBDA receipt : receipt.id # id),
                    transactions |->
                      map(s.transactions, LAMBDA tx :
                        IF tx.receiptId = Def(id)
                        THEN [tx EXCEPT !.receiptId = undefined]
                        ELSE tx)])
  IN Return(s1, <<s1>>, undefined, 0)

removeReceipt(s, id) ==
  LET s1 == set(s, [receipts |->
              filter(s.receipts, LAMBDA receipt : receipt.id # id)])
  IN Return(s1, <<s1>>, undefined, 0)

\* Variant: the new transaction goes to the end of the list.
addTransaction_append(s, args, id, now) ==
  LET transaction ==
        [id |-> id,
         userId |-> args.userId,
         type |-> args.type,
         category |-> args.category,
         amount |-> args.amount,
         date |-> args.date,
         notes |-> args.notes,
         receiptId |-> args.receiptId,
         source |-> IF IsDef(args.source) THEN Val(args.source) ELSE "manual",
         createdAt |-> now]
      s1 == set(s, [transactions |-> Append(s.transactions, transaction)])
  IN Return(s1, <<s1>>, Def(transaction), 1)

\* args: [userId, type, category, amount, date, notes, receiptId, source],
\* the last three optional.
addTransaction(s, args, id, now) ==
  LET transaction ==
        [id |-> id,
         userId |-> args.userId,
         type |-> args.type,
         category |-> args.category,
         amount |-> args.amount,
         date |-> args.date,
         notes |-> args.notes,
         receiptId |-> args.receiptId,
         source |-> IF IsDef(args.source) THEN Val(args.source) ELSE "manual",
         createdAt |-> now]
      s1 == set(s, [transactions |-> <<transaction>> \o s.transactions])
  IN Return(s1, <<s1>>, Def(transaction), 1)

\* { ...a, ...b }
spread(a, b) ==
  [k \in DOMAIN a \cup DOMAIN b |-> IF k \in DOMAIN b THEN b[k] ELSE a[k]]

updateTransaction(s, id, updates) ==
  LET s1 == set(s, [transactions |->
              map(s.transactions, LAMBDA tx :
                IF tx.id = id THEN spread(tx, updates) ELSE tx)])
  IN Return(s1, <<s1>>, undefined, 0)

\* A string is truthy when it is defined and not empty.
truthy(o) == IsDef(o) /\ Val(o) # ""

\* Variant: the receipt stays.
removeTransaction_keepReceipt(s, id) ==
  LET s2 == set(s, [transactions |->
              filter(s.transactions, LAMBDA tx : tx.id # id)])
  IN Return(s2, <<s2>>, undefined, 0)

removeTransaction(s, id) ==
  LET transaction == find(s.transactions, LAMBDA tx : tx.id = id)
      hasReceipt == IsDef(transaction) /\ truthy(Val(transaction).receiptId)
      s1 == IF hasReceipt
            THEN set(s, [receipts |->
                   filter(s.receipts, LAMBDA r :
                     r.id # Val(Val(transaction).receiptId))])
            ELSE s
      s2 == set(s1, [transactions |->
              filter(s1.transactions, LAMBDA tx : tx.id # id)])
  IN Return(s2, IF hasReceipt THEN <<s1, s2>> ELSE <<s2>>, undefined, 0)

\* Variant: an id that no budget has falls through to the creation.
upsertBudget_create(s, args, freshId, now) ==
  LET exists == find(s.budgets, LAMBDA budget : budget.id = Val(args.id))
      updated ==
        [Val(exists) EXCEPT
           !.category = args.category,
           !.limit = args.limit,
           !.rollover = IF IsDef(args.rollover)
                        THEN args.rollover ELSE Val(exists).rollover,
           !.alertThreshold = IF IsDef(args.alertThreshold)
                              THEN args.alertThreshold
                              ELSE Val(exists).alertThreshold]
      s1 == set(s, [budgets |->
              map(s.budgets, LAMBDA budget :
                IF budget.id = Val(args.id) THEN updated ELSE budget)])
      budget ==
        [id |-> freshId,
         userId |-> args.userId,
         category |-> args.category,
         limit |-> args.limit,
         createdAt |-> now,
         rollover |-> args.rollover,
         alertThreshold |-> args.alertThreshold]
      s2 == set(s, [budgets |-> <<budget>> \o s.budgets])
  IN IF NumLe(args.limit, Num(0))
     THEN Throw(s, ErrBudgetLimit)
     ELSE IF truthy(args.id) /\ IsDef(exists)
          THEN Return(s1, <<s1>>, Def(updated), 0)
          ELSE Return(s2, <<s2>>, Def(budget), 1)

\* Variant: the update takes rollover and alertThreshold as they were passed.
upsertBudget_clears(s, args, freshId, now) ==
  LET exists == find(s.budgets, LAMBDA budget : budget.id = Val(args.id))
      updated ==
        [Val(exists) EXCEPT
           !.category = args.category,
           !.limit = args.limit,
           !.rollover = args.rollover,
           !.alertThreshold = args.alertThreshold]
      s1 == set(s, [budgets |->
              map(s.budgets, LAMBDA budget :
                IF budget.id = Val(args.id) THEN updated ELSE budget)])
      budget ==
        [id |-> freshId,
         userId |-> args.userId,
         category |-> args.category,
         limit |-> args.limit,
         createdAt |-> now,
         rollover |-> args.rollover,
         alertThreshold |-> args.alertThreshold]
      s2 == set(s, [budgets |-> <<budget>> \o s.budgets])
  IN IF NumLe(args.limit, Num(0))
     THEN Throw(s, ErrBudgetLimit)
     ELSE IF truthy(args.id)
          THEN IF ~IsDef(exists)
               THEN Throw(s, ErrBudgetNotFound)
               ELSE Return(s1, <<s1>>, Def(updated), 0)
          ELSE Return(s2, <<s2>>, Def(budget), 1)

\* args: [id, userId, category, limit, rollover, alertThreshold]; id,
\* rollover and alertThreshold optional.
upsertBudget(s, args, freshId, now) ==
  LET exists == find(s.budgets, LAMBDA budget : budget.id = Val(args.id))
      updated ==
        [Val(exists) EXCEPT
           !.category = args.category,
           !.limit = args.limit,
           !.rollover = IF IsDef(args.rollover)
                        THEN args.rollover ELSE Val(exists).rollover,
           !.alertThreshold = IF IsDef(args.alertThreshold)
                              THEN args.alertThreshold
                              ELSE Val(exists).alertThreshold]
      s1 == set(s, [budgets |->
              map(s.budgets, LAMBDA budget :
                IF budget.id = Val(args.id) THEN updated ELSE budget)])
      budget ==
        [id |-> freshId,
         userId |-> args.userId,
         category |-> args.category,
         limit |-> args.limit,
         createdAt |-> now,
         rollover |-> args.rollover,
         alertThreshold |-> args.alertThreshold]
      s2 == set(s, [budgets |-> <<budget>> \o s.budgets])
  IN IF NumLe(args.limit, Num(0))
     THEN Throw(s, ErrBudgetLimit)
     ELSE IF truthy(args.id)
          THEN IF ~IsDef(exists)
               THEN Throw(s, ErrBudgetNotFound)
               ELSE Return(s1, <<s1>>, Def(updated), 0)
          ELSE Return(s2, <<s2>>, Def(budget), 1)

removeBudget(s, id) ==
  LET s1 == set(s, [budgets |->
              filter(s.budgets, LAMBDA budget : budget.id # id)])
  IN Return(s1, <<s1>>, undefined, 0)

\* Dates are terms over the clock reading: t, plus months and days added.
Date(t) == [t |-> t, months |-> 0, days |-> 0]
addMonths(d, n) == [d EXCEPT !.months = @ + n]
addDays(d, n) == [d EXCEPT !.days = @ + n]
subDays(d, n) == [d EXCEPT !.days = @ - n]

\* Variant: every default is appended, whether the user has it or not.
upgradeToPremium_appendAll(s, userId, now) ==
  LET renewal == addMonths(now, 1)
      s1 == set(s, [users |->
              map(s.users, LAMBDA user :
                IF user.id = userId
                THEN [user EXCEPT
                        !.subscription =
                          [tier |-> "premium", renewalDate |-> Def(renewal),
                           status |-> "active"],
                        !.categories =
                          concat(user.categories, DEFAULT_CATEGORIES)]
                ELSE user)])
  IN Return(s1, <<s1>>, undefined, 0)

\* Variant: the categories become the default list.
upgradeToPremium_defaults(s, userId, now) ==
  LET renewal == addMonths(now, 1)
      s1 == set(s, [users |->
              map(s.users, LAMBDA user :
                IF user.id = userId
                THEN [user EXCEPT
                        !.subscription =
                          [tier |-> "premium", renewalDate |-> Def(renewal),
                           status |-> "active"],
                        !.categories = DEFAULT_CATEGORIES]
                ELSE user)])
  IN Return(s1, <<s1>>, undefined, 0)

upgradeToPremium(s, userId, now) ==
  LET renewal == addMonths(now, 1)
      s1 == set(s, [users |->
              map(s.users, LAMBDA user :
                IF user.id = userId
                THEN [user EXCEPT
                        !.subscription =
                          [tier |-> "premium", renewalDate |-> Def(renewal),
                           status |-> "active"],
                        !.categories =
                          concat(user.categories,
                            filter(DEFAULT_CATEGORIES, LAMBDA category :
                              ~includes(user.categories, category)))]
                ELSE user)])
  IN Return(s1, <<s1>>, undefined, 0)

\* Variant: the cascade has no test on the owner.
downgradeToFree_everyone(s, userId) ==
  LET s1 == set(s,
        [users |->
           map(s.users, LAMBDA user :
             IF user.id = userId
             THEN [user EXCEPT
                     !.subscription =
                       [tier |-> "free", status |-> "active",
                        renewalDate |-> undefined],
                     !.categories = StarterCategories]
             ELSE user),
         budgets |->
           filter(s.budgets, LAMBDA budget :
             includes(StarterCategories, budget.category)),
         transactions |->
           filter(s.transactions, LAMBDA tx :
             includes(StarterCategories, tx.category))])
  IN Return(s1, <<s1>>, undefined, 0)

\* Variant: an id that no user has is an error.
downgradeToFree_strict(s, userId) ==
  LET s1 == set(s,
        [users |->
           map(s.users, LAMBDA user :
             IF user.id = userId
             THEN [user EXCEPT
                     !.subscription =
                       [tier |-> "free", status |-> "active",
                        renewalDate |-> undefined],
                     !.categories = StarterCategories]
             ELSE user),
         budgets |->
           filter(s.budgets, LAMBDA budget :
             budget.userId # userId
               \/ includes(StarterCategories, budget.category)),
         transactions |->
           filter(s.transactions, LAMBDA tx :
             tx.userId # userId
               \/ includes(StarterCategories, tx.category))])
  IN IF \A k \in 1..Len(s.users) : s.users[k].id # userId
     THEN Throw(s, ErrUserNotFound)
     ELSE Return(s1, <<s1>>, undefined, 0)

downgradeToFree(s, userId) ==
  LET s1 == set(s,
        [users |->
           map(s.users, LAMBDA user :
             IF user.id = userId
             THEN [user EXCEPT
                     !.subscription =
                       [tier |-> "free", status |-> "active",
                        renewalDate |-> undefined],
                     !.categories = StarterCategories]
             ELSE user),
         budgets |->
           filter(s.budgets, LAMBDA budget :
             budget.userId # userId
               \/ includes(StarterCategories, budget.category)),
         transactions |->
           filter(s.transactions, LAMBDA tx :
             tx.userId # userId
               \/ includes(StarterCategories, tx.category))])
  IN Return(s1, <<s1>>, undefined, 0)

\* Variant: only a premium user gets the category.
addCustomCategory_premiumOnly(s, userId, category) ==
  LET trimmed == trim(category)
      s1 == set(s, [users |->
              map(s.users, LAMBDA user :
                IF user.id = userId /\ ~includes(user.categories, trimmed)
                   /\ user.subscription.tier = "premium"
                THEN [user EXCEPT !.categories = Append(user.categories, trimmed)]
                ELSE user)])
  IN IF trimmed = <<>>
     THEN Throw(s, ErrCategoryEmpty)
     ELSE Return(s1, <<s1>>, undefined, 0)

\* Variant: the category is stored before it is validated.
addCustomCategory_late(s, userId, category) ==
  LET trimmed == trim(category)
      s1 == set(s, [users |->
              map(s.users, LAMBDA user :
                IF user.id = userId /\ ~includes(user.categories, trimmed)
                THEN [user EXCEPT !.categories = Append(user.categories, trimmed)]
                ELSE user)])
  IN IF trimmed = <<>>
     THEN [state |-> s1, error |-> ErrCategoryEmpty, ret |-> undefined,
           sets |-> <<s1>>, fresh |-> 0]
     ELSE Return(s1, <<s1>>, undefined, 0)

addCustomCategory(s, userId, category) ==
  LET trimmed == trim(category)
      s1 == set(s, [users |->
              map(s.users, LAMBDA user :
                IF user.id = userId /\ ~includes(user.categories, trimmed)
                THEN [user EXCEPT !.categories = Append(user.categories, trimmed)]
                ELSE user)])
  IN IF trimmed = <<>>
     THEN Throw(s, ErrCategoryEmpty)
     ELSE Return(s1, <<s1>>, undefined, 0)

updateSettings(s, userId, settings) ==
  LET s1 == set(s, [users |->
              map(s.users, LAMBDA user :
                IF user.id = userId
                THEN [user EXCEPT !.settings = spread(user.settings, settings)]
                ELSE user)])
  IN Return(s1, <<s1>>, undefined, 0)

sendAnalyticsEmail(s, userId, period, id, now) ==
  LET log == [id |-> id, userId |-> userId, period |-> period, sentAt |-> now]
      s1 == set(s, [analyticsLog |-> <<log>> \o s.analyticsLog])
  IN Return(s1, <<s1>>, Def(log), 1)


-----------------------------------------------------------------------------
(* generateImportedTransactions (src/app/src/utils/imports.ts).  A draw of *)
(* Math.random() is a number of tenths, 0..9.                              *)

SAMPLE_MERCHANTS ==
  << <<Food, <<"WholeFoods Market", "Fresh Bite Cafe", "Green Bowl">> >>,
     <<Transportation, <<"Metro Transit", "LiftRide", "QuickFuel">> >>,
     <<Entertainment, <<"Sunset Cinema", "PlayVerse Arcade", "City Events">> >>,
     <<Utilities, <<"City Power & Light", "PureWater Co.", "FiberNet">> >>,
     <<Healthcare, <<"Wellness Clinic", "PharmaPlus", "DentalCare">> >>,
     <<Travel, <<"Skylink Airlines", "Harbor Hotels", "Explorer Tours">> >>,
     <<Savings, <<"High Yield Savings", "FutureFund">> >>,
     <<Rent, <<"Downtown Properties">> >> >>

FALLBACK_MERCHANTS == <<"Everyday Store", "Lifestyle Market", "Essential Goods">>

\* Math.floor(r * n) for the draw r
floorRandom(r, n) == (r * n) \div 10

randomAmount(category, r) ==
  IF category = Salary THEN Num(2000 + floorRandom(r, 2000))
  ELSE IF category = Rent THEN Num(900 + floorRandom(r, 600))
  ELSE IF category = Savings THEN Num(150 + floorRandom(r, 250))
  ELSE Num(20 + floorRandom(r, 180))

pickMerchant(category, r) ==
  LET entry == find(SAMPLE_MERCHANTS, LAMBDA e : e[1] = category)
      list == IF IsDef(entry) THEN Val(entry)[2] ELSE FALLBACK_MERCHANTS
  IN list[floorRandom(r, Len(list)) + 1]

\* Variant: the categories are drawn from the default list.
generateImportedTransactions_defaults(user, draws, ids, now) ==
  LET baseDate == subDays(now, 14)
      categories == DEFAULT_CATEGORIES
  IN [i \in 1..ImportCount |->
       LET category ==
             categories[floorRandom(draws[i].category, Len(categories)) + 1]
           type == IF category = Salary \/ category = Savings
                   THEN "income" ELSE "expense"
       IN [id |-> ids[i],
           userId |-> user.id,
           type |-> type,
           category |-> category,
           amount |-> randomAmount(category, draws[i].amount),
           date |-> addDays(baseDate, floorRandom(draws[i].date, 14)),
           notes |->
             Def(<<pickMerchant(category, draws[i].merchant),
                   IF type = "income"
                   THEN " automated deposit" ELSE " automatic sync">>),
           receiptId |-> undefined,
           source |-> "imported",
           createdAt |-> now]]

\* draws[i]: the four draws of iteration i; ids[i]: its nanoid().
generateImportedTransactions(user, draws, ids, now) ==
  LET baseDate == subDays(now, 14)
      categories == user.categories
  IN [i \in 1..ImportCount |->
       LET category ==
             categories[floorRandom(draws[i].category, Len(categories)) + 1]
           type == IF category = Salary \/ category = Savings
                   THEN "income" ELSE "expense"
       IN [id |-> ids[i],
           userId |-> user.id,
           type |-> type,
           category |-> category,
           amount |-> randomAmount(category, draws[i].amount),
           date |-> addDays(baseDate, floorRandom(draws[i].date, 14)),
           notes |->
             Def(<<pickMerchant(category, draws[i].merchant),
                   IF type = "income"
                   THEN " automated deposit" ELSE " automatic sync">>),
           receiptId |-> undefined,
           source |-> "imported",
           createdAt |-> now]]

importTransactions(s, userId, draws, ids, now) ==
  LET user == find(s.users, LAMBDA u : u.id = userId)
      imported == generateImportedTransactions(Val(user), draws, ids, now)
      s1 == set(s, [transactions |-> imported \o s.transactions])
  IN IF ~IsDef(user)
     THEN Throw(s, ErrUserNotFound)
     ELSE Return(s1, <<s1>>, Def(imported), ImportCount)

-----------------------------------------------------------------------------
(* nanoid(): an id that occurs nowhere in the state.  The ids are id1,     *)
(* id2, ...; a call returns the first one that no entity and no reference  *)
(* of the state holds.                                                     *)

Range(f) == {f[i] : i \in DOMAIN f}

UsedIds(s) ==
  {u.id : u \in Range(s.users)}
    \cup {r.id : r \in Range(s.receipts)}
    \cup {tx.id : tx \in Range(s.transactions)}
    \cup {tx.userId : tx \in Range(s.transactions)}
    \cup {Val(tx.receiptId) : tx \in {x \in Range(s.transactions) : IsDef(x.receiptId)}}
    \cup {b.id : b \in Range(s.budgets)}
    \cup {b.userId : b \in Range(s.budgets)}
    \cup {l.id : l \in Range(s.analyticsLog)}
    \cup {l.userId : l \in Range(s.analyticsLog)}
    \cup (IF IsDef(s.currentUserId) THEN {Val(s.currentUserId)} ELSE {})

idName(n) == "id" \o ToString(n)

\* The first k unused ids, in order.
RECURSIVE nanoids(_, _, _)
nanoids(used, k, n) ==
  IF k = 0 THEN <<>>
  ELSE IF idName(n) \in used THEN nanoids(used, k, n + 1)
  ELSE <<idName(n)>> \o nanoids(used, k - 1, n + 1)

\* Variant: every call returns the same id.
nanoid_fixed(s) == idName(1)

nanoid(s) == nanoids(UsedIds(s), 1, 1)[1]


-----------------------------------------------------------------------------
(* The inputs of the calls.  A profile names the values the arguments are  *)
(* drawn from; ids are drawn from the ids the state holds, an id nothing   *)
(* has ("missing") and, where an id is optional, the empty string.         *)

Ann == <<"Ann">>
Pets == <<"Pets">>

BudgetShape(c, l, ro, al) ==
  [category |-> c, limit |-> l, rollover |-> ro, alertThreshold |-> al]
TransactionShape(ty, c, a, d, n, src) ==
  [type |-> ty, category |-> c, amount |-> a, date |-> d, notes |-> n,
   source |-> src]

Core ==
  [cap |-> MaxEntities,
   record |-> FALSE,
   emails |-> {<<"a","@","x">>, <<" ","B","@","x">>},
   names |-> {Ann},
   hashes |-> {"h1"},
   newHashes |-> {"h2"},
   times |-> {Date(1)},
   customCategories |-> {<<" ">>, <<" ", "Pets">>},
   budgets |->
     {BudgetShape(Food, Num(500), undefined, undefined),
      BudgetShape(Travel, Num(0), Def(TRUE), undefined)},
   transactions |->
     {TransactionShape("expense", Food, Num(12), Date(1), undefined, undefined),
      TransactionShape("expense", Travel, Num(40), Date(1), undefined, undefined)},
   updates |-> {[amount |-> Num(20)]},
   settings |-> {[darkMode |-> TRUE]},
   periods |-> {"weekly"},
   randoms |-> {0}]

Auth ==
  [Core EXCEPT
     !.cap = MaxUsers,
     !.record = TRUE,
     !.emails = {<<"a","@","x">>, <<" ","A","@","X","\t">>, <<"b","@","x">>},
     !.names = {<<" ">>, Ann},
     !.hashes = {"h1", "h2"},
     !.newHashes = {"h1", "h2"}]

Budgeting ==
  [Core EXCEPT
     !.cap = MaxBudgets,
     !.record = TRUE,
     !.emails = {<<"a","@","x">>},
     !.times = {Date(1), Date(2)},
     !.budgets =
       {BudgetShape(Food, Num(500), undefined, undefined),
        BudgetShape(Travel, Num(300), Def(TRUE), Def(Num(80))),
        BudgetShape(Food, Num(300), Def(FALSE), undefined),
        BudgetShape(Travel, Num(500), undefined, Def(Num(50))),
        BudgetShape(Food, Num(0), Def(TRUE), Def(Num(80))),
        BudgetShape(Travel, Num(-1), undefined, undefined),
        BudgetShape(Food, NaN, undefined, undefined)}]

Plan ==
  [Core EXCEPT
     !.cap = MaxPlanEntities,
     !.record = TRUE,
     !.emails = {<<"a","@","x">>},
     !.customCategories = {<<" ">>, <<" ", "Pets">>, <<"Food", " ">>},
     !.budgets =
       {BudgetShape(Food, Num(500), undefined, undefined),
        BudgetShape(Travel, Num(300), Def(TRUE), undefined)}]

Tabs ==
  [Core EXCEPT
     !.cap = MaxTabEntities,
     !.record = TRUE,
     !.times = {Date(1), Date(2)}]

Crypto == <<"Crypto">>
Lunch == <<"lunch">>

Ledger ==
  [Core EXCEPT
     !.cap = MaxLedgerEntities,
     !.record = TRUE,
     !.transactions =
       {TransactionShape("expense", Food, Num(12), Date(1), undefined, undefined),
        TransactionShape("income", Crypto, NaN, Date(1), Def(Lunch),
                         Def("imported"))},
     !.updates =
       {[amount |-> Num(20), notes |-> Def(Lunch)]}]

\* Updates that the declared type of the argument leaves out and that a
\* caller can pass all the same.
UntypedUpdates == {[id |-> "id9", userId |-> "other"]}

UserIdArgs(s) == {u.id : u \in Range(s.users)} \cup {"missing"}
ReceiptIdArgs(s) == {r.id : r \in Range(s.receipts)} \cup {"missing"}
TransactionIdArgs(s) == {tx.id : tx \in Range(s.transactions)} \cup {"missing"}
BudgetIdArgs(s) == {b.id : b \in Range(s.budgets)} \cup {"missing"}
Optional(S) == {undefined} \cup {Def(x) : x \in S}

TransactionArgs(D, s) ==
  {[userId |-> u, type |-> sh.type, category |-> sh.category,
    amount |-> sh.amount, date |-> sh.date, notes |-> sh.notes,
    receiptId |-> r, source |-> sh.source] :
     u \in UserIdArgs(s), sh \in D.transactions,
     r \in Optional({x.id : x \in Range(s.receipts)})}

BudgetArgs(D, s) ==
  {[id |-> i, userId |-> u, category |-> sh.category, limit |-> sh.limit,
    rollover |-> sh.rollover, alertThreshold |-> sh.alertThreshold] :
     i \in Optional(BudgetIdArgs(s) \cup {""}), u \in UserIdArgs(s),
     sh \in D.budgets}

DrawArgs(D) ==
  [1..ImportCount ->
     {[category |-> r, amount |-> r, date |-> r, merchant |-> r] :
        r \in D.randoms}]

-----------------------------------------------------------------------------
(* The persist middleware: every set() hands the state to the listeners    *)
(* and writes partialize(state) to the storage slot.                       *)

partialize(s) ==
  [users |-> s.users, receipts |-> s.receipts,
   transactions |-> s.transactions, budgets |-> s.budgets,
   analyticsLog |-> s.analyticsLog, currentUserId |-> s.currentUserId]

\* Variant: a write keeps the receipts of the snapshot when it has more of
\* them than the state written.
persist_merge(slot, sets) ==
  IF sets = <<>> THEN slot
  ELSE LET new == partialize(sets[Len(sets)])
       IN IF IsDef(slot) /\ Len(Val(slot).receipts) > Len(new.receipts)
          THEN Def([new EXCEPT !.receipts = Val(slot).receipts])
          ELSE Def(new)

\* The slot after a call that handed sets to set(): the last one written.
persist(slot, sets) ==
  IF sets = <<>> THEN slot ELSE Def(partialize(sets[Len(sets)]))

\* What JSON.parse(JSON.stringify(x)) makes of a number: NaN is written as
\* null.
JSONNull == [null |-> TRUE]
JSONNumber(n) == IF n.nan THEN JSONNull ELSE n

\* What getItem returns of the snapshot that setItem was given.  Keys whose
\* value is undefined are left out by stringify and read as undefined.
createJSONStorage(snapshot) ==
  [snapshot EXCEPT
     !.transactions =
       map(snapshot.transactions, LAMBDA tx :
         [tx EXCEPT !.amount = JSONNumber(tx.amount)]),
     !.budgets =
       map(snapshot.budgets, LAMBDA b :
         [b EXCEPT
            !.limit = JSONNumber(b.limit),
            !.alertThreshold =
              IF IsDef(b.alertThreshold)
              THEN Def(JSONNumber(Val(b.alertThreshold)))
              ELSE undefined])]

\* The state of a store that starts on the slot: the initial state, with
\* the keys of the stored snapshot over it.
rehydrate(slot) ==
  IF IsDef(slot)
  THEN spread(InitialState, createJSONStorage(Val(slot)))
  ELSE InitialState

Entities(s) ==
  Len(s.users) + Len(s.receipts) + Len(s.transactions) + Len(s.budgets)
    + Len(s.analyticsLog)

\* A call with outcome r takes place: the store takes r.state, the states
\* handed to set() are published and the last one is written.  creds is the
\* new value of the history of the sign-ups: for each, the id returned, the
\* normal form of the email and the hash given, and whether resetPassword
\* was since called for it.  call is the last call and the error it threw,
\* in the specifications whose profile records it.  The first conjunct
\* bounds the model: a call that creates entities is made when the store
\* stays within the cap (an import, when the store holds at most
\* MaxBeforeImport entities), and on a store over the cap (after an import)
\* only calls that shrink it are made.
Apply(D, op, r, creds) ==
  /\ IF Entities(State) > D.cap THEN Entities(r.state) < Entities(State)
     ELSE IF r.fresh = 0 THEN TRUE
     ELSE IF op = "importTransactions"
          THEN Entities(State) <= MaxBeforeImport
          ELSE Entities(r.state) <= D.cap
  /\ users' = r.state.users
  /\ receipts' = r.state.receipts
  /\ transactions' = r.state.transactions
  /\ budgets' = r.state.budgets
  /\ analyticsLog' = r.state.analyticsLog
  /\ currentUserId' = r.state.currentUserId
  /\ published' = r.sets
  /\ storage' = persist(storage, r.sets)
  /\ call' = IF D.record THEN [op |-> op, error |-> r.error] ELSE call
  /\ credentials' = creds
  /\ otherTab' = otherTab

Init ==
  /\ users = InitialState.users
  /\ receipts = InitialState.receipts
  /\ transactions = InitialState.transactions
  /\ budgets = InitialState.budgets
  /\ analyticsLog = InitialState.analyticsLog
  /\ currentUserId = InitialState.currentUserId
  /\ storage = undefined
  /\ published = <<>>
  /\ call = [op |-> "create", error |-> NoError]
  /\ credentials = <<>>
  /\ otherTab = InitialState

SignUp(D) ==
  \E email \in D.emails, name \in D.names, passwordHash \in D.hashes,
     now \in D.times :
    LET r == signUp(State, email, name, passwordHash, nanoid(State), now)
    IN Apply(D, "signUp", r,
         IF r.error = NoError
         THEN Append(credentials,
                [id |-> Val(r.ret), email |-> normalize(email),
                 passwordHash |-> passwordHash, reset |-> FALSE])
         ELSE credentials)

SignIn(D) ==
  \E email \in D.emails, passwordHash \in D.hashes \cup D.newHashes :
    Apply(D, "signIn", signIn(State, email, passwordHash), credentials)

SignOut(D) ==
  Apply(D, "signOut", signOut(State), credentials)

ResetPassword(D) ==
  \E email \in D.emails, newPasswordHash \in D.newHashes :
    LET r == resetPassword(State, email, newPasswordHash)
    IN Apply(D, "resetPassword", r,
         IF r.error = NoError
         THEN map(credentials, LAMBDA c :
                IF c.email = normalize(email)
                THEN [c EXCEPT !.reset = TRUE]
                ELSE c)
         ELSE credentials)

AddReceipt(D) ==
  \E now \in D.times :
    Apply(D, "addReceipt",
          addReceipt(State, "receipt.png", "data:image/png;base64,AA==",
                     nanoid(State), now),
          credentials)

RemoveReceipt(D) ==
  \E id \in ReceiptIdArgs(State) :
    Apply(D, "removeReceipt", removeReceipt(State, id), credentials)

AddTransaction(D) ==
  \E args \in TransactionArgs(D, State), now \in D.times :
    Apply(D, "addTransaction", addTransaction(State, args, nanoid(State), now),
          credentials)

UpdateTransaction(D) ==
  \E id \in TransactionIdArgs(State), updates \in D.updates :
    Apply(D, "updateTransaction", updateTransaction(State, id, updates),
          credentials)

RemoveTransaction(D) ==
  \E id \in TransactionIdArgs(State) :
    Apply(D, "removeTransaction", removeTransaction(State, id), credentials)

UpsertBudget(D) ==
  \E args \in BudgetArgs(D, State), now \in D.times :
    Apply(D, "upsertBudget", upsertBudget(State, args, nanoid(State), now),
          credentials)

RemoveBudget(D) ==
  \E id \in BudgetIdArgs(State) :
    Apply(D, "removeBudget", removeBudget(State, id), credentials)

UpgradeToPremium(D) ==
  \E userId \in UserIdArgs(State), now \in D.times :
    Apply(D, "upgradeToPremium", upgradeToPremium(State, userId, now),
          credentials)

DowngradeToFree(D) ==
  \E userId \in UserIdArgs(State) :
    Apply(D, "downgradeToFree", downgradeToFree(State, userId), credentials)

AddCustomCategory(D) ==
  \E userId \in UserIdArgs(State), category \in D.customCategories :
    Apply(D, "addCustomCategory", addCustomCategory(State, userId, category),
          credentials)

ImportTransactions(D) ==
  \E userId \in UserIdArgs(State), draws \in DrawArgs(D), now \in D.times :
    Apply(D, "importTransactions",
          importTransactions(State, userId, draws,
                             nanoids(UsedIds(State), ImportCount, 1), now),
          credentials)

UpdateSettings(D) ==
  \E userId \in UserIdArgs(State), settings \in D.settings :
    Apply(D, "updateSettings", updateSettings(State, userId, settings),
          credentials)

SendAnalyticsEmail(D) ==
  \E userId \in UserIdArgs(State), period \in D.periods, now \in D.times :
    Apply(D, "sendAnalyticsEmail",
          sendAnalyticsEmail(State, userId, period, nanoid(State), now),
          credentials)

\* The whole store.
Next ==
  \/ SignUp(Core)
  \/ SignIn(Core)
  \/ SignOut(Core)
  \/ ResetPassword(Core)
  \/ AddReceipt(Core)
  \/ RemoveReceipt(Core)
  \/ AddTransaction(Core)
  \/ UpdateTransaction(Core)
  \/ RemoveTransaction(Core)
  \/ UpsertBudget(Core)
  \/ RemoveBudget(Core)
  \/ UpgradeToPremium(Core)
  \/ DowngradeToFree(Core)
  \/ AddCustomCategory(Core)
  \/ ImportTransactions(Core)
  \/ UpdateSettings(Core)
  \/ SendAnalyticsEmail(Core)

Spec == Init /\ [][Next]_vars

\* Accounts only, with more emails, names and hashes.
NextAuth ==
  \/ SignUp(Auth)
  \/ SignIn(Auth)
  \/ SignOut(Auth)
  \/ ResetPassword(Auth)

SpecAuth == Init /\ [][NextAuth]_vars

\* Budgets only, with more limits, flags and clock readings.
NextBudgeting ==
  \/ SignUp(Budgeting)
  \/ SignOut(Budgeting)
  \/ UpsertBudget(Budgeting)
  \/ RemoveBudget(Budgeting)

SpecBudgeting == Init /\ [][NextBudgeting]_vars

\* Plan changes: an account, its categories, and the budgets, transactions
\* and receipts that a downgrade goes through.
NextPlan ==
  \/ SignUp(Plan)
  \/ UpgradeToPremium(Plan)
  \/ DowngradeToFree(Plan)
  \/ AddCustomCategory(Plan)
  \/ UpsertBudget(Plan)
  \/ AddReceipt(Plan)
  \/ AddTransaction(Plan)

SpecPlan == Init /\ [][NextPlan]_vars

\* The budgeting page (src/unnamed/part_004).  The form holds an id when a
\* budget is being edited, a category, a limit, an alert threshold and the
\* rollover flag; the limit and the threshold are held here as the numbers
\* that the schema makes of the text.
useAuth(s) ==
  find(s.users, LAMBDA candidate : Def(candidate.id) = s.currentUserId)

premiumLocked(user) ==
  ~(IsDef(user) /\ Val(user).subscription.tier = "premium")

\* A number that JavaScript takes for true.
truthyNumber(n) == ~n.nan /\ n.v # 0

\* The forms that the resolver lets through to onSubmit.
budgetSchema(form) ==
  /\ form.category # <<>>
  /\ NumGt(form.limit, Num(0))
  /\ (IsDef(form.alertThreshold) /\ truthyNumber(Val(form.alertThreshold)))
       => /\ NumGt(Val(form.alertThreshold), Num(0))
          /\ NumLe(Val(form.alertThreshold), Num(100))

defaultValues(user) ==
  [id |-> undefined,
   category |-> IF IsDef(user) /\ Val(user).categories # <<>>
                THEN Val(user).categories[1] ELSE <<>>,
   limit |-> NaN,
   alertThreshold |-> undefined,
   rollover |-> Def(TRUE)]

handleEdit(form, budget) ==
  [form EXCEPT
     !.id = Def(budget.id),
     !.category = budget.category,
     !.limit = budget.limit,
     !.alertThreshold =
       IF IsDef(budget.alertThreshold)
            /\ truthyNumber(Val(budget.alertThreshold))
       THEN budget.alertThreshold ELSE undefined,
     !.rollover = IF IsDef(budget.rollover) THEN budget.rollover ELSE Def(TRUE)]

\* The forms that a visit of the page can submit: the default values, or
\* those of a budget of the user's that Edit loaded, with a category and a
\* limit typed in and, when the inputs are not disabled, a threshold typed
\* and the toggle set.  The value of the disabled threshold input is the one
\* the form holds or none, as the form library has it.
FormValues(D, s) ==
  LET user == useAuth(s)
      userBudgets ==
        filter(s.budgets, LAMBDA budget :
          IsDef(user) /\ budget.userId = Val(user).id)
      loaded == {defaultValues(user)}
                  \cup {handleEdit(defaultValues(user), userBudgets[k]) :
                          k \in 1..Len(userBudgets)}
  IN IF premiumLocked(user)
     THEN UNION {{[base EXCEPT !.category = sh.category, !.limit = sh.limit,
                               !.alertThreshold = a] :
                    sh \in D.budgets,
                    a \in {base.alertThreshold, undefined}} :
                  base \in loaded}
     ELSE {[base EXCEPT !.category = sh.category, !.limit = sh.limit,
                        !.alertThreshold = sh.alertThreshold,
                        !.rollover = IF IsDef(sh.rollover) THEN sh.rollover
                                     ELSE base.rollover] :
             base \in loaded, sh \in D.budgets}

onSubmit(s, values, freshId, now) ==
  LET user == useAuth(s)
      payload ==
        [id |-> values.id,
         userId |-> Val(user).id,
         category |-> values.category,
         limit |-> values.limit,
         rollover |-> values.rollover,
         alertThreshold |-> values.alertThreshold]
  IN IF ~IsDef(user)
     THEN Return(s, <<>>, undefined, 0)
     ELSE upsertBudget(s, payload, freshId, now)

SubmitBudgetForm(D) ==
  \E values \in FormValues(D, State), now \in D.times :
    /\ budgetSchema(values)
    /\ Apply(D, "onSubmit", onSubmit(State, values, nanoid(State), now),
             credentials)

NextForm ==
  \/ SignUp(Budgeting)
  \/ SignOut(Budgeting)
  \/ UpgradeToPremium(Budgeting)
  \/ DowngradeToFree(Budgeting)
  \/ SubmitBudgetForm(Budgeting)

SpecForm == Init /\ [][NextForm]_vars

\* Two tabs on one slot.  The variables of the store are those of the tab
\* that is being used; otherTab is the state in the memory of the tab that
\* is not.  Going to the other tab exchanges the two, and reloading the tab
\* starts its store on the slot.  A tab reads the slot at no other time.
SwitchTab(D) ==
  /\ users' = otherTab.users
  /\ receipts' = otherTab.receipts
  /\ transactions' = otherTab.transactions
  /\ budgets' = otherTab.budgets
  /\ analyticsLog' = otherTab.analyticsLog
  /\ currentUserId' = otherTab.currentUserId
  /\ otherTab' = State
  /\ published' = <<>>
  /\ call' = IF D.record THEN [op |-> "switchTab", error |-> NoError] ELSE call
  /\ UNCHANGED <<storage, credentials>>

Reload(D) ==
  /\ users' = rehydrate(storage).users
  /\ receipts' = rehydrate(storage).receipts
  /\ transactions' = rehydrate(storage).transactions
  /\ budgets' = rehydrate(storage).budgets
  /\ analyticsLog' = rehydrate(storage).analyticsLog
  /\ currentUserId' = rehydrate(storage).currentUserId
  /\ published' = <<>>
  /\ call' = IF D.record THEN [op |-> "reload", error |-> NoError] ELSE call
  /\ UNCHANGED <<storage, credentials, otherTab>>

NextTabs ==
  \/ AddReceipt(Tabs)
  \/ RemoveReceipt(Tabs)
  \/ SwitchTab(Tabs)
  \/ Reload(Tabs)

SpecTabs == Init /\ [][NextTabs]_vars

\* The ledger: transactions and receipts.
NextLedger ==
  \/ AddReceipt(Ledger)
  \/ RemoveReceipt(Ledger)
  \/ AddTransaction(Ledger)
  \/ UpdateTransaction(Ledger)
  \/ RemoveTransaction(Ledger)

SpecLedger == Init /\ [][NextLedger]_vars

-----------------------------------------------------------------------------
(* Properties.  Those about one call are stated for every call that can be *)
(* made in the state: for all arguments of the profile, the result of the  *)
(* handler on State.                                                       *)

\* The users of a list whose email has the normal form of e.
Matching(us, e) ==
  {i \in 1..Len(us) : normalize(us[i].email) = normalize(e)}

\* C1: no two users have emails with the same normal form (trimmed and
\* lower-cased), and signUp with an email whose normal form is that of a
\* user's email throws the conflict error and adds no user.
C1_UniqueEmail ==
  /\ \A i, j \in 1..Len(users) :
       normalize(users[i].email) = normalize(users[j].email) => i = j
  /\ \A email \in Auth.emails, name \in Auth.names,
        passwordHash \in Auth.hashes, now \in Auth.times :
       LET r == signUp(State, email, name, passwordHash, nanoid(State), now)
       IN Matching(users, email) # {}
            => r.error = ErrConflict /\ r.state.users = users

\* A second sign-up was refused for its email.
C1_Witness ==
  /\ call = [op |-> "signUp", error |-> ErrConflict]
  /\ Len(users) = 2

\* C2: a signUp whose email matches no user appends one user, with the
\* normal form of the email, the free active subscription without renewal
\* date, the settings USD / notifications / no dark mode / haptics and the
\* first six default categories; it changes no other user, returns the new
\* id and makes it the current user.
C2_SignUpDefaults ==
  \A email \in Auth.emails, name \in Auth.names,
     passwordHash \in Auth.hashes, now \in Auth.times :
    LET r == signUp(State, email, name, passwordHash, nanoid(State), now)
        n == Len(users)
        u == r.state.users[n + 1]
    IN Matching(users, email) = {}
         => /\ r.error = NoError
            /\ Len(r.state.users) = n + 1
            /\ SubSeq(r.state.users, 1, n) = users
            /\ u.email = toLowerCase(trim(email))
            /\ u.subscription =
                 [tier |-> "free", status |-> "active",
                  renewalDate |-> undefined]
            /\ u.settings =
                 [currency |-> "USD", notifications |-> TRUE,
                  darkMode |-> FALSE, haptics |-> TRUE]
            /\ u.categories =
                 <<Salary, Rent, Food, Transportation, Entertainment, Utilities>>
            /\ u.id \notin {users[i].id : i \in 1..n}
            /\ r.ret = Def(u.id)
            /\ r.state.currentUserId = Def(u.id)

\* Two sign-ups succeeded, the second one the last call.
C2_Witness ==
  /\ call = [op |-> "signUp", error |-> NoError]
  /\ Len(users) = 2
  /\ currentUserId = Def(users[2].id)

\* C3: signIn with an email that matches no user, or with a hash other than
\* the matched user's, throws the invalid-credentials error, hands nothing
\* to set() and leaves every part of the state as it was.
C3_SignInRejects ==
  \A email \in Auth.emails, passwordHash \in Auth.hashes \cup Auth.newHashes :
    LET r == signIn(State, email, passwordHash)
    IN (\A i \in Matching(users, email) :
          users[i].passwordHash # passwordHash)
         => /\ r.error = ErrInvalidCredentials
            /\ r.state = State
            /\ r.sets = <<>>

\* A sign-in was refused while somebody was signed in and two accounts exist.
C3_Witness ==
  /\ call = [op |-> "signIn", error |-> ErrInvalidCredentials]
  /\ Len(users) = 2
  /\ IsDef(currentUserId)

\* C4: after signUp(email, name, h), whatever calls follow, as long as
\* resetPassword has not been called for that user, signIn with any email of
\* the same normal form and h succeeds: it returns the user with the id that
\* signUp returned and makes it the current user.
C4_SignInAfterSignUp ==
  \A k \in 1..Len(credentials) :
    LET c == credentials[k]
    IN ~c.reset =>
         \A e \in Core.emails \cup Auth.emails :
           toLowerCase(trim(e)) = c.email =>
             LET r == signIn(State, e, c.passwordHash)
             IN /\ r.error = NoError
                /\ IsDef(r.ret)
                /\ Val(r.ret).id = c.id
                /\ r.state.currentUserId = Def(c.id)

\* The first account signed in again after the second signed up, was
\* upgraded, and never had its password reset, while the second had.
C4_Witness ==
  /\ Len(users) = 2
  /\ Len(credentials) = 2
  /\ currentUserId = Def(credentials[1].id)
  /\ users[1].subscription.tier = "premium"
  /\ ~credentials[1].reset
  /\ credentials[2].reset

\* C5: resetPassword with an email that matches a user changes that user's
\* passwordHash and nothing else; afterwards signIn with that email succeeds
\* with the new hash and fails with the old one when the two differ.  With
\* an email that matches no user it throws the not-found error and changes
\* nothing.
C5_ResetPassword ==
  \A email \in Auth.emails, newPasswordHash \in Auth.newHashes :
    LET r == resetPassword(State, email, newPasswordHash)
        m == Matching(users, email)
    IN /\ m = {} => r.error = ErrNoAccount /\ r.state = State /\ r.sets = <<>>
       /\ \A i \in m :
            LET old == users[i].passwordHash
            IN /\ r.error = NoError
               /\ r.state =
                    [State EXCEPT
                       !.users[i].passwordHash = newPasswordHash]
               /\ \A e \in Auth.emails :
                    normalize(e) = normalize(email)
                      => /\ signIn(r.state, e, newPasswordHash).error = NoError
                         /\ signIn(r.state, e, newPasswordHash).ret
                              = Def(r.state.users[i])
                         /\ old # newPasswordHash
                              => signIn(r.state, e, old).error
                                   = ErrInvalidCredentials

\* A reset succeeded while somebody was signed in, and the first account no
\* longer has the hash it signed up with.
C5_Witness ==
  /\ call = [op |-> "resetPassword", error |-> NoError]
  /\ Len(users) = 2
  /\ IsDef(currentUserId)
  /\ Len(credentials) = 2
  /\ credentials[1].reset
  /\ users[1].passwordHash # credentials[1].passwordHash

\* C6: a call that throws (signUp on a conflict, signIn on invalid
\* credentials, resetPassword for no account, upsertBudget on a limit <= 0
\* or an id no budget has, addCustomCategory on an empty category,
\* importTransactions for an unknown user) leaves the state and the
\* persisted snapshot as they were.
Unchanged(r) ==
  r.error # NoError => r.state = State /\ persist(storage, r.sets) = storage

C6_FailureChangesNothing ==
  /\ \A email \in Core.emails, name \in Core.names,
        passwordHash \in Core.hashes, now \in Core.times :
       LET r == signUp(State, email, name, passwordHash, nanoid(State), now)
       IN /\ Unchanged(r)
          /\ Matching(users, email) # {} => r.error = ErrConflict
  /\ \A email \in Core.emails, passwordHash \in Core.hashes \cup Core.newHashes :
       LET r == signIn(State, email, passwordHash)
       IN /\ Unchanged(r)
          /\ Matching(users, email) = {} => r.error = ErrInvalidCredentials
  /\ \A email \in Core.emails, newPasswordHash \in Core.newHashes :
       LET r == resetPassword(State, email, newPasswordHash)
       IN /\ Unchanged(r)
          /\ Matching(users, email) = {} => r.error = ErrNoAccount
  /\ \A args \in BudgetArgs(Core, State), now \in Core.times :
       LET r == upsertBudget(State, args, nanoid(State), now)
       IN /\ Unchanged(r)
          /\ NumLe(args.limit, Num(0)) => r.error = ErrBudgetLimit
          /\ args.id = Def("missing") /\ ~NumLe(args.limit, Num(0))
               => r.error = ErrBudgetNotFound
  /\ \A userId \in UserIdArgs(State), category \in Core.customCategories :
       LET r == addCustomCategory(State, userId, category)
       IN /\ Unchanged(r)
          /\ trim(category) = <<>> => r.error = ErrCategoryEmpty
  /\ \A userId \in UserIdArgs(State), draws \in DrawArgs(Core),
        now \in Core.times :
       LET r == importTransactions(State, userId, draws,
                  nanoids(UsedIds(State), ImportCount, 1), now)
       IN /\ Unchanged(r)
          /\ userId = "missing" => r.error = ErrUserNotFound

\* A call threw after something was persisted: an account and a budget exist
\* and the last call handed nothing to set().
C6_Witness ==
  /\ published = <<>>
  /\ users # <<>>
  /\ budgets # <<>>
  /\ IsDef(storage)
  /\ Val(storage) = partialize(State)

\* C7: every call is one update of the state followed by one write of the
\* snapshot: what it hands to set() is its final state, once.  In
\* particular removeTransaction of a transaction with a receipt shows no
\* state that has the transaction but no longer the receipt.
C7_OneUpdatePerCall ==
  /\ Len(published) <= 1
  /\ \A k \in 1..Len(published) : published[k] = State

\* C8: every budget has a limit greater than zero.
C8_PositiveLimit ==
  \A k \in 1..Len(budgets) : NumGt(budgets[k].limit, Num(0))

\* The budget an update makes of b: category and limit as passed, rollover
\* and alertThreshold as passed or, when left out, as they were.
Merged(b, args) ==
  [id |-> b.id, userId |-> b.userId, createdAt |-> b.createdAt,
   category |-> args.category, limit |-> args.limit,
   rollover |-> IF args.rollover = undefined THEN b.rollover
                ELSE args.rollover,
   alertThreshold |-> IF args.alertThreshold = undefined THEN b.alertThreshold
                      ELSE args.alertThreshold]

\* The positions of the budgets with the id.
WithId(bs, id) == {k \in 1..Len(bs) : bs[k].id = id}

C10_UpdateMerges ==
  \A args \in BudgetArgs(Budgeting, State), now \in Budgeting.times :
    LET r == upsertBudget(State, args, nanoid(State), now)
    IN ~NumLe(args.limit, Num(0)) /\ IsDef(args.id) =>
         \A k \in WithId(budgets, Val(args.id)) :
           /\ r.error = NoError
           /\ r.state.budgets[k] = Merged(budgets[k], args)
           /\ r.ret = Def(Merged(budgets[k], args))

\* A budget created with rollover and an alert threshold was updated by a
\* form that left both out: it has the new category and limit and the old
\* flags.
C10_Witness ==
  /\ call = [op |-> "upsertBudget", error |-> NoError]
  /\ \E k \in 1..Len(budgets) :
       /\ budgets[k].category = Food
       /\ budgets[k].limit = Num(500)
       /\ budgets[k].rollover = Def(TRUE)
       /\ budgets[k].alertThreshold = Def(Num(80))

\* The first six default categories, and all nine.
FirstSix == <<Salary, Rent, Food, Transportation, Entertainment, Utilities>>
AllNine == FirstSix \o <<Healthcare, Travel, Savings>>

\* The positions of the users with the id.
UsersWithId(us, id) == {k \in 1..Len(us) : us[k].id = id}

\* The rows of a list that a downgrade of userId takes away: those of this
\* user whose category is not one of the first six defaults.
Cascaded(row, userId) ==
  row.userId = userId /\ \A k \in 1..6 : row.category # FirstSix[k]

\* C11: downgradeToFree for an existing user makes the subscription
\* free/active without renewal date and the categories the first six
\* defaults; it removes the budgets and transactions of this user whose
\* category is not among the first six defaults, and no others.
C11_DowngradeCascade ==
  \A userId \in UserIdArgs(State) :
    LET r == downgradeToFree(State, userId)
    IN \A i \in UsersWithId(users, userId) :
         /\ r.error = NoError
         /\ r.state.users[i].subscription =
              [tier |-> "free", status |-> "active", renewalDate |-> undefined]
         /\ r.state.users[i].categories = FirstSix
         /\ r.state.budgets =
              SelectSeq(budgets, LAMBDA b : ~Cascaded(b, userId))
         /\ r.state.transactions =
              SelectSeq(transactions, LAMBDA tx : ~Cascaded(tx, userId))

\* A downgrade of the user went past a budget of somebody else's in a
\* category outside the first six, and past a budget of the user's own
\* within them.
C11_Witness ==
  /\ call = [op |-> "downgradeToFree", error |-> NoError]
  /\ Len(users) = 1
  /\ users[1].categories = FirstSix
  /\ Len(budgets) = 2
  /\ \E k \in 1..2 : budgets[k].userId = users[1].id /\ budgets[k].category = Food
  /\ \E k \in 1..2 : budgets[k].userId # users[1].id /\ budgets[k].category = Travel

\* C12: downgradeToFree never throws, for an unknown userId either, and a
\* second call for the same userId changes nothing that the first left; the
\* user's categories are then the first six defaults.
C12_DowngradeIdempotent ==
  \A userId \in UserIdArgs(State) :
    LET once == downgradeToFree(State, userId)
        twice == downgradeToFree(once.state, userId)
    IN /\ once.error = NoError
       /\ twice.error = NoError
       /\ twice.state = once.state
       /\ \A i \in UsersWithId(users, userId) :
            twice.state.users[i].categories = FirstSix

\* A downgrade was called, without error, on a store that has transactions
\* and no user at all.
C12_Witness ==
  /\ call = [op |-> "downgradeToFree", error |-> NoError]
  /\ users = <<>>
  /\ transactions # <<>>

\* C13: upgradeToPremium for an existing user makes the subscription
\* premium/active with a renewal date, and the categories the previous ones
\* in their order followed by the defaults that were missing: all nine
\* defaults and every previous category are then in the list.  For a userId
\* that no user has it changes nothing and does not throw.
C13_UpgradeUnion ==
  \A userId \in UserIdArgs(State), now \in Plan.times :
    LET r == upgradeToPremium(State, userId, now)
    IN /\ r.error = NoError
       /\ UsersWithId(users, userId) = {} => r.state = State
       /\ \A i \in UsersWithId(users, userId) :
            LET old == users[i].categories
                new == r.state.users[i].categories
                sub == r.state.users[i].subscription
            IN /\ sub.tier = "premium"
               /\ sub.status = "active"
               /\ sub.renewalDate # undefined
               /\ Len(new) >= Len(old)
               /\ SubSeq(new, 1, Len(old)) = old
               /\ SubSeq(new, Len(old) + 1, Len(new)) =
                    SelectSeq(AllNine, LAMBDA c : c \notin Range(old))
               /\ Range(AllNine) \subseteq Range(new)
               /\ Range(old) \subseteq Range(new)

\* The user added a category of their own and was upgraded after that: the
\* three missing defaults follow it.
C13_Witness ==
  /\ call = [op |-> "upgradeToPremium", error |-> NoError]
  /\ Len(users) = 1
  /\ users[1].subscription.tier = "premium"
  /\ users[1].categories = FirstSix \o <<Pets, Healthcare, Travel, Savings>>

\* C14: every user on the free tier has the first six default categories
\* in the category list.
C14_FreeKeepsStarters ==
  \A i \in 1..Len(users) :
    users[i].subscription.tier = "free"
      => Range(FirstSix) \subseteq Range(users[i].categories)

\* A user on the free tier added a category: the list is the first six
\* defaults and the category.
C14_Witness ==
  /\ call = [op |-> "addCustomCategory", error |-> NoError]
  /\ Len(users) = 1
  /\ users[1].subscription.tier = "free"
  /\ users[1].categories = FirstSix \o <<Pets>>

\* C15: addCustomCategory throws the validation error when the trimmed name
\* is empty.  Otherwise it appends the trimmed name to the categories of
\* the user with the id when that user exists and does not have it yet, and
\* changes nothing else; the tier plays no part.
C15_AddCustomCategory ==
  \A userId \in UserIdArgs(State), category \in Plan.customCategories \cup {<<>>} :
    LET r == addCustomCategory(State, userId, category)
        name == trim(category)
    IN IF name = <<>>
       THEN r.error = ErrCategoryEmpty /\ r.state = State
       ELSE /\ r.error = NoError
            /\ r.state =
                 [State EXCEPT !.users =
                    [i \in 1..Len(users) |->
                       IF users[i].id = userId
                            /\ name \notin Range(users[i].categories)
                       THEN [users[i] EXCEPT
                               !.categories = Append(users[i].categories, name)]
                       ELSE users[i]]]

\* A premium user has, after the nine defaults, the category they added.
C15_Witness ==
  /\ call = [op |-> "addCustomCategory", error |-> NoError]
  /\ Len(users) = 1
  /\ users[1].subscription.tier = "premium"
  /\ users[1].categories = AllNine \o <<Pets>>

\* The positions of the transactions with the id.
TransactionsWithId(txs, id) == {k \in 1..Len(txs) : txs[k].id = id}

\* C16: removeTransaction removes the transaction with the id and, when it
\* has a receiptId, the receipt with that id; when it has none the receipts
\* stay as they were, and when no transaction has the id the transactions
\* and the receipts stay as they were.
C16_RemoveTransaction ==
  \A id \in TransactionIdArgs(State) :
    LET r == removeTransaction(State, id)
        m == TransactionsWithId(transactions, id)
    IN /\ r.error = NoError
       /\ r.state.transactions = SelectSeq(transactions, LAMBDA tx : tx.id # id)
       /\ m = {} => /\ r.state.transactions = transactions
                    /\ r.state.receipts = receipts
       /\ \A k \in m :
            IF transactions[k].receiptId = undefined
            THEN r.state.receipts = receipts
            ELSE r.state.receipts =
                   SelectSeq(receipts, LAMBDA rc :
                     rc.id # transactions[k].receiptId[1])

\* A transaction went with its receipt, and another receipt stayed.
C16_Witness ==
  /\ call = [op |-> "removeTransaction", error |-> NoError]
  /\ Len(published) = 2
  /\ Len(published[1].receipts) = 1
  /\ Len(receipts) = 1
  /\ transactions = <<>>

\* C17: in every step in which a transaction that has a receiptId leaves
\* the transaction list, by removeTransaction or by the cascade of
\* downgradeToFree, no receipt with that id is in the receipt list
\* afterwards.
C17_ReceiptFollowsTransaction ==
  [][\A k \in 1..Len(transactions) :
       (/\ transactions[k].receiptId # undefined
        /\ \A j \in 1..Len(transactions') :
             transactions'[j].id # transactions[k].id)
         => \A j \in 1..Len(receipts') :
              receipts'[j].id # transactions[k].receiptId[1]]_vars

\* C18: addTransaction puts the new transaction at the head of the list
\* and leaves the others as they were, in their order; the source is
\* manual when none was passed and the one passed otherwise; the amount and
\* the category are stored as passed, whatever they are.
C18_AddTransaction ==
  \A args \in TransactionArgs(Ledger, State), now \in Ledger.times :
    LET r == addTransaction(State, args, nanoid(State), now)
        tx == r.state.transactions[1]
    IN /\ r.error = NoError
       /\ Len(r.state.transactions) = Len(transactions) + 1
       /\ Tail(r.state.transactions) = transactions
       /\ r.ret = Def(tx)
       /\ tx.source = IF args.source = undefined THEN "manual"
                      ELSE args.source[1]
       /\ tx.amount = args.amount
       /\ tx.category = args.category
       /\ tx.userId = args.userId
       /\ tx.receiptId = args.receiptId
       /\ r.state = [State EXCEPT !.transactions = r.state.transactions]

\* An imported income with an amount that is not a number, in a category
\* nobody has, was put before a manual expense.
C18_Witness ==
  /\ call = [op |-> "addTransaction", error |-> NoError]
  /\ Len(transactions) = 2
  /\ transactions[1].source = "imported"
  /\ transactions[1].amount = NaN
  /\ transactions[1].category = Crypto
  /\ transactions[2].source = "manual"
  /\ transactions[2].category = Food

\* C19: addTransaction followed by removeTransaction of the id returned
\* gives the transaction list as it was before (the empty list, when it was
\* empty), and, when the transaction had no receiptId, every other
\* collection as it was.
C19_AddThenRemove ==
  \A args \in TransactionArgs(Ledger, State), now \in Ledger.times :
    LET added == addTransaction(State, args, nanoid(State), now)
        removed == removeTransaction(added.state, added.ret[1].id)
    IN /\ removed.error = NoError
       /\ removed.state.transactions = transactions
       /\ transactions = <<>> => Len(removed.state.transactions) = 0
       /\ args.receiptId = undefined => removed.state = State

\* A transaction without receipt was removed from a list that it was alone
\* in, next to two receipts that stayed.
C19_Witness ==
  /\ call = [op |-> "removeTransaction", error |-> NoError]
  /\ Len(published) = 1
  /\ transactions = <<>>
  /\ Len(receipts) = 2

\* C20: updateTransaction replaces the fields passed of the transaction
\* with the id and leaves its id and userId as they were, whatever the
\* updates hold; the other transactions, the order and the length of the
\* list stay; when no transaction has the id the state stays and nothing is
\* thrown.
C20_UpdateTransaction ==
  \A id \in TransactionIdArgs(State),
     updates \in Ledger.updates \cup UntypedUpdates :
    LET r == updateTransaction(State, id, updates)
        new == r.state.transactions
    IN /\ r.error = NoError
       /\ Len(new) = Len(transactions)
       /\ TransactionsWithId(transactions, id) = {} => r.state = State
       /\ \A k \in 1..Len(transactions) :
            IF transactions[k].id = id
            THEN /\ new[k].id = transactions[k].id
                 /\ new[k].userId = transactions[k].userId
                 /\ \A f \in DOMAIN updates \ {"id", "userId"} :
                      new[k][f] = updates[f]
                 /\ \A f \in DOMAIN transactions[k] \ DOMAIN updates :
                      new[k][f] = transactions[k][f]
            ELSE new[k] = transactions[k]

\* C21: removeReceipt removes the receipt with the id and nothing else:
\* every transaction stays as it was, its receiptId included, so that a
\* transaction can name a receipt that is no longer in the list.  When no
\* receipt has the id the state stays as it was.
C21_RemoveReceipt ==
  \A id \in ReceiptIdArgs(State) :
    LET r == removeReceipt(State, id)
    IN /\ r.error = NoError
       /\ r.state =
            [State EXCEPT
               !.receipts = SelectSeq(receipts, LAMBDA rc : rc.id # id)]
       /\ r.state.transactions = transactions
       /\ (\A k \in 1..Len(receipts) : receipts[k].id # id) => r.state = State

\* A receipt was removed and a transaction still names it.
C21_Witness ==
  /\ call = [op |-> "removeReceipt", error |-> NoError]
  /\ receipts = <<>>
  /\ \E k \in 1..Len(transactions) : transactions[k].receiptId # undefined

\* Draws of an import: the same tenth in every iteration, or a tenth that
\* moves with the iteration.
ImportDraws ==
  LET draw(n) == [category |-> n, amount |-> n, date |-> n, merchant |-> n]
  IN {[i \in 1..ImportCount |-> draw(n)] : n \in 0..9}
       \cup {[i \in 1..ImportCount |-> draw((3 * i) % 10)]}

\* C22: importTransactions throws the not-found error for a userId that no
\* user has.  For a user it returns a batch whose transactions all have
\* the user's id, the source imported and a category of the user's list,
\* and puts the batch, in its order, before the previous transactions,
\* which stay as they were.
C22_ImportTransactions ==
  \A userId \in UserIdArgs(State), draws \in ImportDraws, now \in Core.times :
    LET r == importTransactions(State, userId, draws,
               nanoids(UsedIds(State), ImportCount, 1), now)
        m == UsersWithId(users, userId)
    IN /\ m = {} => r.error = ErrUserNotFound /\ r.state = State
       /\ \A i \in m :
            LET batch == r.ret[1]
            IN /\ r.error = NoError
               /\ Len(batch) > 0
               /\ \A k \in 1..Len(batch) :
                    /\ batch[k].userId = userId
                    /\ batch[k].source = "imported"
                    /\ batch[k].category \in Range(users[i].categories)
               /\ r.state = [State EXCEPT !.transactions = batch \o transactions]

\* A batch was imported for the user.
C22_Witness ==
  /\ Len(users) = 1
  /\ Len(transactions) = ImportCount
  /\ \A k \in 1..Len(transactions) :
       /\ transactions[k].source = "imported"
       /\ transactions[k].userId = users[1].id
       /\ transactions[k].category \in Range(users[1].categories)
  /\ published = <<State>>

\* C23: the analytics log only grows at its head: in every step the
\* entries it had stay, with their fields and in their order, behind what
\* the step added; and where the log grows, sendAnalyticsEmail adds one
\* entry at the head, for the userId and the period passed, whatever the
\* tier of the user.
C23_LogAppendOnly ==
  [][/\ Len(analyticsLog') >= Len(analyticsLog)
     /\ SubSeq(analyticsLog', Len(analyticsLog') - Len(analyticsLog) + 1,
               Len(analyticsLog')) = analyticsLog
     /\ analyticsLog' # analyticsLog =>
          \A userId \in UserIdArgs(State),
             period \in Core.periods \cup {"monthly"}, now \in Core.times :
            LET r == sendAnalyticsEmail(State, userId, period, nanoid(State), now)
            IN /\ r.error = NoError
               /\ Len(r.state.analyticsLog) = Len(analyticsLog) + 1
               /\ Tail(r.state.analyticsLog) = analyticsLog
               /\ r.ret = Def(r.state.analyticsLog[1])
               /\ r.state.analyticsLog[1].userId = userId
               /\ r.state.analyticsLog[1].period = period
               /\ r.state = [State EXCEPT !.analyticsLog = r.state.analyticsLog]
    ]_vars

\* An entry sent for a user on the free tier is in the log after the user
\* signed out.
C23_Witness ==
  /\ Len(users) = 1
  /\ users[1].subscription.tier = "free"
  /\ Len(analyticsLog) = 1
  /\ analyticsLog[1].userId = users[1].id
  /\ currentUserId = undefined
  /\ published = <<State>>

\* C24: after every call that returned, the snapshot in the slot is the
\* users, receipts, transactions, budgets, analyticsLog and currentUserId
\* of the store, and a store that starts on it has the same ones; a store
\* that starts on an empty slot is empty, with no current user.
C24_SnapshotRoundTrip ==
  /\ rehydrate(undefined) =
       [users |-> <<>>, receipts |-> <<>>, transactions |-> <<>>,
        budgets |-> <<>>, analyticsLog |-> <<>>, currentUserId |-> undefined]
  /\ (call.op # "create" /\ call.error = NoError) =>
       /\ storage = Def(State)
       /\ rehydrate(storage) = State

\* The calls that are not calls of the store.
PageEvents == {"create", "switchTab", "reload"}

\* C25: with two tabs on one slot, every write puts the state of the tab
\* that writes in the slot, whole, whatever the slot held and whatever the
\* other tab has in memory: after a call in one tab and then a call in the
\* other, the snapshot is the state of the second and has nothing of the
\* first, and the second call returns as it would alone.
C25_LastWriteWins ==
  /\ (call.op \notin PageEvents /\ call.error = NoError)
       => storage = Def(partialize(State))
  /\ \A fileName \in {"receipt.png"}, dataUrl \in {"data:image/png;base64,AA=="},
        now \in Tabs.times :
       LET r == addReceipt(State, fileName, dataUrl, nanoid(State), now)
       IN /\ r.error = NoError
          /\ persist(storage, r.sets) = Def(partialize(r.state))
  /\ \A id \in ReceiptIdArgs(State) :
       LET r == removeReceipt(State, id)
       IN /\ r.error = NoError
          /\ persist(storage, r.sets) = Def(partialize(r.state))

\* One tab added a receipt, then the other tab, which had none in memory,
\* added one at a later time: the snapshot has the second receipt only, and
\* the first tab still has the first in memory.
C25_Witness ==
  /\ call = [op |-> "addReceipt", error |-> NoError]
  /\ Len(receipts) = 1
  /\ receipts[1].uploadedAt = Date(2)
  /\ Len(otherTab.receipts) = 1
  /\ otherTab.receipts[1].uploadedAt = Date(1)
  /\ storage = Def(partialize(State))

\* C26: the budgeting page keeps rollover and the alert threshold to
\* premium users: a budget that a user on the free tier creates or updates
\* by submitting the budget form has no rollover = true and no alert
\* threshold from that submit.
C26_FormGate ==
  \A values \in FormValues(Budgeting, State), now \in Budgeting.times :
    LET user == useAuth(State)
        r == onSubmit(State, values, nanoid(State), now)
    IN (/\ budgetSchema(values)
        /\ IsDef(user)
        /\ user[1].subscription.tier = "free"
        /\ r.error = NoError)
         => /\ r.ret[1].rollover # Def(TRUE)
            /\ values.alertThreshold = undefined

NoDuplicates(list) ==
  \A i, j \in 1..Len(list) : list[i] = list[j] => i = j

\* C27: no user's category list holds the same name twice, and
\* upgradeToPremium called twice in a row leaves every user's categories
\* as one call leaves them, without duplicates.
C27_NoDuplicateCategories ==
  /\ \A k \in 1..Len(users) : NoDuplicates(users[k].categories)
  /\ \A userId \in UserIdArgs(State), now \in Plan.times, later \in Plan.times :
       LET once == upgradeToPremium(State, userId, now)
           twice == upgradeToPremium(once.state, userId, later)
       IN /\ once.error = NoError
          /\ twice.error = NoError
          /\ Len(twice.state.users) = Len(users)
          /\ \A k \in 1..Len(users) :
               /\ twice.state.users[k].categories =
                    once.state.users[k].categories
               /\ NoDuplicates(twice.state.users[k].categories)

\* A premium user with a category of their own was upgraded again: the list
\* is the one they had.
C27_Witness ==
  /\ call = [op |-> "upgradeToPremium", error |-> NoError]
  /\ Len(users) = 1
  /\ users[1].subscription.tier = "premium"
  /\ users[1].categories = AllNine \o <<Pets>>

\* C28: currentUserId is absent or the id of a user in the users list, and
\* useAuth returns a user exactly when currentUserId is set; the user it
\* returns is the one with that id.
C28_CurrentUser ==
  /\ IsDef(currentUserId) => UsersWithId(users, Val(currentUserId)) # {}
  /\ IsDef(useAuth(State)) <=> IsDef(currentUserId)
  /\ IsDef(useAuth(State)) => Val(useAuth(State)).id = Val(currentUserId)

\* The first of two users signed in again after the second signed up.
C28_Witness ==
  /\ Len(users) = 2
  /\ currentUserId = Def(users[1].id)
  /\ useAuth(State) = Def(users[1])

\* What a call for userId leaves alone in the state after it: the records
\* of the other users, the transactions and budgets of other owners (each
\* kept, in order), the receipts, the analytics log and the session.
LeavesOthersAlone(after, userId) ==
  /\ after.receipts = receipts
  /\ after.analyticsLog = analyticsLog
  /\ after.currentUserId = currentUserId
  /\ Len(after.users) = Len(users)
  /\ \A k \in 1..Len(users) :
       users[k].id # userId => after.users[k] = users[k]
  /\ SelectSeq(after.transactions, LAMBDA tx : tx.userId # userId)
       = SelectSeq(transactions, LAMBDA tx : tx.userId # userId)
  /\ SelectSeq(after.budgets, LAMBDA budget : budget.userId # userId)
       = SelectSeq(budgets, LAMBDA budget : budget.userId # userId)

\* C29: upgradeToPremium, downgradeToFree, addCustomCategory,
\* updateSettings and importTransactions called with a userId change no
\* other user's record and no transaction or budget of another owner, and
\* leave receipts, analyticsLog and currentUserId as they were.
C29_UserScoped ==
  \A userId \in UserIdArgs(State) :
    /\ \A now \in Core.times :
         LeavesOthersAlone(upgradeToPremium(State, userId, now).state, userId)
    /\ LeavesOthersAlone(downgradeToFree(State, userId).state, userId)
    /\ \A category \in Core.customCategories :
         LeavesOthersAlone(addCustomCategory(State, userId, category).state,
                           userId)
    /\ \A settings \in Core.settings :
         LeavesOthersAlone(updateSettings(State, userId, settings).state,
                           userId)
    /\ \A draws \in DrawArgs(Core), now \in Core.times :
         LeavesOthersAlone(
           importTransactions(State, userId, draws,
                              nanoids(UsedIds(State), ImportCount, 1),
                              now).state,
           userId)

\* The first of two users was upgraded and changed a setting; the second
\* has the record that signUp gave them.
C29_Witness ==
  /\ Len(users) = 2
  /\ users[1].subscription.tier = "premium"
  /\ users[1].settings.darkMode
  /\ users[2].subscription.tier = "free"
  /\ ~users[2].settings.darkMode
  /\ users[2].categories = FirstSix
  /\ published = <<State>>

=============================================================================
